---- MODULE Spec2Model ----
(***************************************************************************)
(* Model of shopping.py: a batch pipeline that loads a table of            *)
(* e-commerce sessions, remaps its categorical columns, splits the rows    *)
(* into a training and a test set, fits a 1-nearest-neighbour classifier,  *)
(* evaluates it and prints four report lines.                              *)
(*                                                                         *)
(* Values.  Python and pandas values are dynamically typed, so every cell  *)
(* of a table carries its type as the name of its field(s):                *)
(*    [int |-> n]                an integer                                *)
(*    [str |-> s]                a string                                  *)
(*    [bool |-> b]               a boolean                                 *)
(*    [whole |-> w, frac |-> d]  a non-negative float written in decimal:  *)
(*                               w is its integer part and d the sequence  *)
(*                               of its decimal digits, without trailing   *)
(*                               zeros (0.05 is [whole |-> 0,              *)
(*                               frac |-> <<0, 5>>]).                      *)
(* `table` is the DataFrame pd.read_csv returns: a sequence of rows, each  *)
(* a sequence of cells in the column order of the file.                    *)
(***************************************************************************)
EXTENDS Integers, Sequences, FiniteSets, TLC

VARIABLES
    pc,           \* the statement of main() the process is at
    argv,         \* sys.argv
    fileOk,       \* whether pd.read_csv can read and parse argv[1]
    table,        \* the DataFrame pd.read_csv yields for the file
    evidence,     \* main: evidence
    labels,       \* main: labels
    train_idx,    \* train_test_split: the row indices drawn for training
    test_idx,     \* train_test_split: the row indices drawn for testing
    X_train, X_test, y_train, y_test,
    model,        \* the fitted KNeighborsClassifier
    predictions,  \* main: predictions
    sensitivity, specificity,
    stdout,       \* the lines printed so far
    stderr,       \* the messages written to standard error
    status        \* None while running, then Exit(code)

vars == <<pc, argv, fileOk, table, evidence, labels, train_idx, test_idx,
          X_train, X_test, y_train, y_test, model, predictions,
          sensitivity, specificity, stdout, stderr, status>>

----------------------------------------------------------------------------
(* Bounds of the model.                                                    *)

MaxArgc == 3        \* longest sys.argv explored
MaxRows == 4        \* most rows of a table run through the whole pipeline
MaxLoadRows == 2    \* most rows of a table given to load_data alone
MaxLen == 4         \* longest labels/predictions pair given to evaluate alone

----------------------------------------------------------------------------
(* Cells.                                                                  *)

I(n) == [int |-> n]
S(s) == [str |-> s]
B(b) == [bool |-> b]
F(w, d) == [whole |-> w, frac |-> d]

IsInt(c) == DOMAIN c = {"int"}
IsStr(c) == DOMAIN c = {"str"}
IsBool(c) == DOMAIN c = {"bool"}
IsFloat(c) == DOMAIN c = {"whole", "frac"}

None == [none |-> TRUE]
Exit(code) == [code |-> code]

----------------------------------------------------------------------------
(* transform_df                                                            *)

\* The header of the file: the 17 feature columns in order, then Revenue.
Columns ==
    << "Administrative", "Administrative_Duration", "Informational",
       "Informational_Duration", "ProductRelated", "ProductRelated_Duration",
       "BounceRates", "ExitRates", "PageValues", "SpecialDay", "Month",
       "OperatingSystems", "Browser", "Region", "TrafficType", "VisitorType",
       "Weekend", "Revenue" >>

\* The nested dictionary of transform_df: column -> {<<value, replacement>>}.
mapping ==
    [ Month |->
        { <<S("Jan"), 0>>, <<S("Feb"), 1>>, <<S("Mar"), 2>>,
          <<S("Apr"), 3>>, <<S("May"), 4>>, <<S("June"), 5>>,
          <<S("Jul"), 6>>, <<S("Aug"), 7>>, <<S("Sep"), 8>>,
          <<S("Oct"), 9>>, <<S("Nov"), 10>>, <<S("Dec"), 11>> },
      VisitorType |->
        { <<S("Returning_Visitor"), 1>>, <<S("New_Visitor"), 0>>,
          <<S("Other"), 0>> },
      Weekend |-> { <<B(TRUE), 1>>, <<B(FALSE), 0>> },
      Revenue |-> { <<B(TRUE), 1>>, <<B(FALSE), 0>> } ]

\* Mutant: the columns mapped as with Series.map, which turns a value
\* that is no key of the dictionary into a missing value.
replace_as_map(col, cell) ==
    IF col \notin DOMAIN mapping THEN cell
    ELSE IF \E p \in mapping[col] : p[1] = cell
    THEN I((CHOOSE p \in mapping[col] : p[1] = cell)[2])
    ELSE None

\* DataFrame.replace on one cell of column `col`: a value that is a key of the
\* column's dictionary becomes its replacement, every other value stays.
replace(col, cell) ==
    IF col \in DOMAIN mapping /\ \E p \in mapping[col] : p[1] = cell
    THEN I((CHOOSE p \in mapping[col] : p[1] = cell)[2])
    ELSE cell

transform_df(df) ==
    [i \in DOMAIN df |->
        [c \in DOMAIN df[i] |-> replace(Columns[c], df[i][c])]]

----------------------------------------------------------------------------
(* dataframe_to_list_of_lists: DataFrame.to_json followed by json.loads.   *)
(* to_json is called without double_precision, so it writes every float    *)
(* with at most DOUBLE_PRECISION decimal places, rounding the rest away;    *)
(* integers, strings and booleans are written exactly, and json.loads      *)
(* reads back exactly what was written.                                    *)

DOUBLE_PRECISION == 10

RECURSIVE StripZeros(_)
StripZeros(d) ==
    IF d = <<>> THEN d
    ELSE IF d[Len(d)] = 0 THEN StripZeros(SubSeq(d, 1, Len(d) - 1))
    ELSE d

AllZero(d) == \A i \in DOMAIN d : d[i] = 0

\* d + 1 on a digit sequence of fixed length; <<carry, digits>>.
RECURSIVE Increment(_)
Increment(d) ==
    IF d = <<>> THEN <<1, <<>>>>
    ELSE IF d[Len(d)] < 9
         THEN <<0, [d EXCEPT ![Len(d)] = @ + 1]>>
         ELSE LET r == Increment(SubSeq(d, 1, Len(d) - 1))
              IN  <<r[1], Append(r[2], 0)>>

\* The encoder's rounding of the digits beyond the precision: up when they
\* are more than half a unit of the last kept digit; when exactly half, up
\* if the kept fraction is odd or zero.
RoundsUp(kept, rest) ==
    LET half == rest = <<5>>
        more == rest[1] > 5 \/ (rest[1] = 5 /\ Len(rest) > 1)
    IN  more \/ (half /\ (AllZero(kept) \/ kept[Len(kept)] % 2 = 1))

to_json_double(c) ==
    IF Len(c.frac) <= DOUBLE_PRECISION THEN c
    ELSE LET kept == SubSeq(c.frac, 1, DOUBLE_PRECISION)
             rest == SubSeq(c.frac, DOUBLE_PRECISION + 1, Len(c.frac))
             inc  == Increment(kept)
         IN  IF ~RoundsUp(kept, rest) THEN F(c.whole, StripZeros(kept))
             ELSE IF inc[1] = 1 THEN F(c.whole + 1, <<>>)
             ELSE F(c.whole, StripZeros(inc[2]))

to_json_value(c) == IF IsFloat(c) THEN to_json_double(c) ELSE c

\* applied to a DataFrame (a sequence of rows)
dataframe_to_list_of_lists(df) ==
    [i \in DOMAIN df |-> [c \in DOMAIN df[i] |-> to_json_value(df[i][c])]]

\* applied to a Series (one column)
series_to_list(s) == [i \in DOMAIN s |-> to_json_value(s[i])]

----------------------------------------------------------------------------
(* load_data                                                               *)

\* Mutant: the labels taken from the column before the last.
load_data_label_off_by_one(df) ==
    LET df_transformed == transform_df(df)
        X == [i \in DOMAIN df_transformed |->
                 SubSeq(df_transformed[i], 1, Len(df_transformed[i]) - 1)]
        y == [i \in DOMAIN df_transformed |->
                 df_transformed[i][Len(df_transformed[i]) - 1]]
    IN  <<dataframe_to_list_of_lists(X), series_to_list(y)>>

load_data(df) ==
    LET df_transformed == transform_df(df)
        X == [i \in DOMAIN df_transformed |->
                 SubSeq(df_transformed[i], 1, Len(df_transformed[i]) - 1)]
        y == [i \in DOMAIN df_transformed |->
                 df_transformed[i][Len(df_transformed[i])]]
    IN  <<dataframe_to_list_of_lists(X), series_to_list(y)>>

----------------------------------------------------------------------------
(* train_test_split(evidence, labels, test_size=TEST_SIZE)                 *)

TEST_SIZE == <<4, 10>>      \* 0.4 as a fraction

\* Mutant: the test size rounded down.
n_test_floor(n) == (TEST_SIZE[1] * n) \div TEST_SIZE[2]

\* n_test = ceil(test_size * n_samples), n_train = n_samples - n_test
n_test(n) == (TEST_SIZE[1] * n + TEST_SIZE[2] - 1) \div TEST_SIZE[2]
n_train(n) == n - n_test(n)

\* The split is refused (ValueError) when the training set would be empty.
split_raises(n) == n_train(n) = 0

\* The indices of a shuffle `perm` of 1..n: the first n_test go to the test
\* set and the rest to the training set.
test_indices(perm, n) == [i \in 1..n_test(n) |-> perm[i]]

\* Mutant: the training slice starts one place early.
train_indices_overlap(perm, n) == [i \in 1..n_train(n) |-> perm[n_test(n) + i - 1]]

train_indices(perm, n) == [i \in 1..n_train(n) |-> perm[n_test(n) + i]]

\* a list indexed by a list of indices
safe_indexing(xs, idx) == [i \in DOMAIN idx |-> xs[idx[i]]]

----------------------------------------------------------------------------
(* train_model and model.predict: KNeighborsClassifier(n_neighbors=1)      *)

\* Arrays given to the classifier must convert to numbers.
IsNumeric(c) == ~IsStr(c)
AllNumeric(X) == \A i \in DOMAIN X : \A c \in DOMAIN X[i] : IsNumeric(X[i][c])

Max(a, b) == IF a >= b THEN a ELSE b

RECURSIVE Pow10(_)
Pow10(k) == IF k = 0 THEN 1 ELSE 10 * Pow10(k - 1)

Digits(c) == IF IsFloat(c) THEN Len(c.frac) ELSE 0

RECURSIVE FracValue(_, _)
\* the digits d read as an integer of exactly E digits (E >= Len(d))
FracValue(d, E) ==
    IF d = <<>> THEN 0
    ELSE d[1] * Pow10(E - 1) + FracValue(Tail(d), E - 1)

\* the number a cell holds, in units of 10^-E
Scaled(c, E) ==
    IF IsInt(c) THEN c.int * Pow10(E)
    ELSE IF IsBool(c) THEN (IF c.bool THEN Pow10(E) ELSE 0)
    ELSE c.whole * Pow10(E) + FracValue(c.frac, E)

\* the most decimal digits of any cell of the vectors of X
MaxDigits(X) ==
    LET D == UNION {{Digits(X[i][c]) : c \in DOMAIN X[i]} : i \in DOMAIN X}
               \cup {0}
    IN  CHOOSE m \in D : \A x \in D : x <= m

RECURSIVE SumSquares(_, _, _, _)
\* the sum over the coordinates C of (a[c] - b[c])^2, in units of 10^-2E
SumSquares(a, b, E, C) ==
    IF C = {} THEN 0
    ELSE LET c == CHOOSE x \in C : TRUE
             d == Scaled(a[c], E) - Scaled(b[c], E)
         IN  d * d + SumSquares(a, b, E, C \ {c})

\* the squared Euclidean distance of a and b, in units of 10^-2E (the
\* coordinates where a and b agree add nothing)
Distance2(a, b, E) == SumSquares(a, b, E, {c \in DOMAIN a : a[c] # b[c]})

fit(X, y) == [X |-> X, y |-> y]

\* the squared distances of q to the training vectors, in training order
distances(m, q) ==
    LET E == Max(MaxDigits(m.X), MaxDigits(<<q>>))
    IN  <<>> \o [j \in DOMAIN m.X |-> Distance2(m.X[j], q, E)]

\* Mutant: the first training vector taken for the nearest.
kneighbors_first(m, q) == {1}

\* The indices of the training vectors nearest to q.
kneighbors(m, q) ==
    UNION { {j \in DOMAIN d : \A k \in DOMAIN d : d[j] <= d[k]} :
              d \in {distances(m, q)} }

\* The labels the classifier may return for q: the label of a nearest
\* training vector (which one, among several equally near, is the search
\* implementation's choice).
nearest_labels(m, q) == {m.y[j] : j \in kneighbors(m, q)}

RECURSIVE predict(_, _)
\* The predictions the classifier may return for the queries Q.
predict(m, Q) ==
    IF Q = <<>> THEN {<<>>}
    ELSE {<<l>> \o rest : l \in nearest_labels(m, Head(Q)),
                           rest \in predict(m, Tail(Q))}

----------------------------------------------------------------------------
(* evaluate                                                                *)

RECURSIVE GCD(_, _)
GCD(a, b) == IF b = 0 THEN a ELSE GCD(b, a % b)

NaN == [nan |-> TRUE]
Inf == [inf |-> TRUE]

\* Mutant: a zero denominator masked by a rate of 0.
Divide_masked(a, b) ==
    IF b = 0 THEN [num |-> 0, den |-> 1]
    ELSE [num |-> a \div GCD(a, b), den |-> b \div GCD(a, b)]

\* numpy true division of two non-negative integers
Divide(a, b) ==
    IF b = 0 THEN (IF a = 0 THEN NaN ELSE Inf)
    ELSE [num |-> a \div GCD(a, b), den |-> b \div GCD(a, b)]

IsNumber(x) == DOMAIN x = {"num", "den"}

\* The classes confusion_matrix finds: the values of either argument, sorted.
unique_labels(y_true, y_pred) ==
    LET U == {y_true[i].int : i \in DOMAIN y_true}
               \cup {y_pred[i].int : i \in DOMAIN y_pred}
        RECURSIVE Sorted(_)
        Sorted(T) == IF T = {} THEN <<>>
                     ELSE LET m == CHOOSE x \in T : \A z \in T : x <= z
                          IN  <<m>> \o Sorted(T \ {m})
    IN  Sorted(U)

\* cm[i, j] (0-based): the rows with true class i-th and predicted class j-th
confusion_matrix(y_true, y_pred) ==
    LET cls == unique_labels(y_true, y_pred)
        k   == Len(cls)
    IN  [i \in 0..(k - 1), j \in 0..(k - 1) |->
            Cardinality({r \in DOMAIN y_true :
                            /\ y_true[r].int = cls[i + 1]
                            /\ y_pred[r].int = cls[j + 1]})]

\* Mutant: the matrix read transposed (FN and FP exchanged).
evaluate_transposed(y_true, y_pred) ==
    LET cm == confusion_matrix(y_true, y_pred)
    IN  IF \E ix \in {<<0, 0>>, <<1, 0>>, <<0, 1>>, <<1, 1>>} : ix \notin DOMAIN cm
        THEN [raised |-> "IndexError"]
        ELSE LET TN == cm[0, 0]
                 FN == cm[0, 1]
                 FP == cm[1, 0]
                 TP == cm[1, 1]
             IN  [value |-> <<Divide(TP, TP + FN), Divide(TN, TN + FP)>>]

\* The result of evaluate: [value |-> <<sensitivity, specificity>>], or
\* [raised |-> "IndexError"] when an index is outside the matrix.
evaluate(y_true, y_pred) ==
    LET cm == confusion_matrix(y_true, y_pred)
    IN  IF \E ix \in {<<0, 0>>, <<1, 0>>, <<0, 1>>, <<1, 1>>} : ix \notin DOMAIN cm
        THEN [raised |-> "IndexError"]
        ELSE LET TN == cm[0, 0]
                 FN == cm[1, 0]
                 FP == cm[0, 1]
                 TP == cm[1, 1]
             IN  [value |-> <<Divide(TP, TP + FN), Divide(TN, TN + FP)>>]

----------------------------------------------------------------------------
(* The report lines of main                                                *)

\* f"{100 * x:.2f}": the text of 100 * x with two decimals, as
\* [whole |-> w, cents |-> c]; nan and inf print as such.
Format2f(x) ==
    IF ~IsNumber(x) THEN x
    ELSE LET n == 10000 * x.num
             q == n \div x.den
             r == n % x.den
             h == IF 2 * r > x.den \/ (2 * r = x.den /\ q % 2 = 1)
                  THEN q + 1 ELSE q
         IN  [whole |-> h \div 100, cents |-> h % 100]

\* (y_test == predictions).sum() and (y_test != predictions).sum()
CountEqual(a, b) == Cardinality({i \in DOMAIN a : a[i] = b[i]})
CountDiffer(a, b) == Cardinality({i \in DOMAIN a : a[i] # b[i]})

CorrectLine == <<"Correct: ", CountEqual(y_test, predictions)>>
IncorrectLine == <<"Incorrect: ", CountDiffer(y_test, predictions)>>
TruePositiveLine == <<"True Positive Rate: ", Format2f(sensitivity), "%">>
TrueNegativeLine == <<"True Negative Rate: ", Format2f(specificity), "%">>

Usage == "Usage: python shopping.py data"

\* Mutant: the failed statement is tried again.
RaiseAndRetry(exc) ==
    /\ stderr' = Append(stderr, exc)
    /\ status' = status
    /\ pc' = pc

\* An uncaught exception ends the process: the traceback goes to standard
\* error and the exit status is 1.
Raise(exc) ==
    /\ stderr' = Append(stderr, exc)
    /\ status' = Exit(1)
    /\ pc' = "exit"

----------------------------------------------------------------------------
(* main, one action per statement                                          *)

\* Mutant: only a missing argument is refused.
CheckArgs_missing_only ==
    /\ pc = "start"
    /\ IF Len(argv) < 2
       THEN Raise(Usage)
       ELSE pc' = "load" /\ UNCHANGED <<stderr, status>>
    /\ UNCHANGED <<argv, fileOk, table, evidence, labels, train_idx, test_idx,
                   X_train, X_test, y_train, y_test, model, predictions,
                   sensitivity, specificity, stdout>>

\* if len(sys.argv) != 2: sys.exit("Usage: python shopping.py data")
CheckArgs ==
    /\ pc = "start"
    /\ IF Len(argv) # 2
       THEN Raise(Usage)
       ELSE pc' = "load" /\ UNCHANGED <<stderr, status>>
    /\ UNCHANGED <<argv, fileOk, table, evidence, labels, train_idx, test_idx,
                   X_train, X_test, y_train, y_test, model, predictions,
                   sensitivity, specificity, stdout>>

\* evidence, labels = load_data(sys.argv[1])
LoadData ==
    /\ pc = "load"
    /\ IF fileOk
       THEN /\ evidence' = load_data(table)[1]
            /\ labels' = load_data(table)[2]
            /\ pc' = "split"
            /\ UNCHANGED <<stderr, status>>
       ELSE /\ Raise("read_csv error")
            /\ UNCHANGED <<evidence, labels>>
    /\ UNCHANGED <<argv, fileOk, table, train_idx, test_idx,
                   X_train, X_test, y_train, y_test, model, predictions,
                   sensitivity, specificity, stdout>>

\* X_train, X_test, y_train, y_test = train_test_split(...)
Split ==
    /\ pc = "split"
    /\ LET n == Len(evidence) IN
       IF split_raises(n)
       THEN /\ Raise("ValueError")
            /\ UNCHANGED <<train_idx, test_idx, X_train, X_test, y_train, y_test>>
       ELSE \E perm \in Permutations(1..n) :
            /\ train_idx' = train_indices(perm, n)
            /\ test_idx' = test_indices(perm, n)
            /\ X_train' = safe_indexing(evidence, train_indices(perm, n))
            /\ X_test' = safe_indexing(evidence, test_indices(perm, n))
            /\ y_train' = safe_indexing(labels, train_indices(perm, n))
            /\ y_test' = safe_indexing(labels, test_indices(perm, n))
            /\ pc' = "train"
            /\ UNCHANGED <<stderr, status>>
    /\ UNCHANGED <<argv, fileOk, table, evidence, labels, model, predictions,
                   sensitivity, specificity, stdout>>

\* model = train_model(X_train, y_train)
TrainModel ==
    /\ pc = "train"
    /\ IF AllNumeric(X_train)
       THEN /\ model' = fit(X_train, y_train)
            /\ pc' = "predict"
            /\ UNCHANGED <<stderr, status>>
       ELSE /\ Raise("ValueError")
            /\ UNCHANGED model
    /\ UNCHANGED <<argv, fileOk, table, evidence, labels, train_idx, test_idx,
                   X_train, X_test, y_train, y_test, predictions,
                   sensitivity, specificity, stdout>>

\* predictions = model.predict(X_test)
Predict ==
    /\ pc = "predict"
    /\ IF AllNumeric(X_test)
       THEN /\ predictions' \in predict(model, X_test)
            /\ pc' = "evaluate"
            /\ UNCHANGED <<stderr, status>>
       ELSE /\ Raise("ValueError")
            /\ UNCHANGED predictions
    /\ UNCHANGED <<argv, fileOk, table, evidence, labels, train_idx, test_idx,
                   X_train, X_test, y_train, y_test, model,
                   sensitivity, specificity, stdout>>

\* sensitivity, specificity = evaluate(y_test, predictions)
Evaluate ==
    /\ pc = "evaluate"
    /\ LET r == evaluate(y_test, predictions) IN
       IF "raised" \in DOMAIN r
       THEN /\ Raise(r.raised)
            /\ UNCHANGED <<sensitivity, specificity>>
       ELSE /\ sensitivity' = r.value[1]
            /\ specificity' = r.value[2]
            /\ pc' = "print_correct"
            /\ UNCHANGED <<stderr, status>>
    /\ UNCHANGED <<argv, fileOk, table, evidence, labels, train_idx, test_idx,
                   X_train, X_test, y_train, y_test, model, predictions, stdout>>

\* print(line), then on to the statement `next`
PrintLine(at, line, next) ==
    /\ pc = at
    /\ stdout' = Append(stdout, line)
    /\ pc' = next
    /\ status' = IF next = "done" THEN Exit(0) ELSE status
    /\ UNCHANGED <<argv, fileOk, table, evidence, labels, train_idx, test_idx,
                   X_train, X_test, y_train, y_test, model, predictions,
                   sensitivity, specificity, stderr>>

PrintCorrect == PrintLine("print_correct", CorrectLine, "print_incorrect")
PrintIncorrect == PrintLine("print_incorrect", IncorrectLine, "print_tpr")
PrintTruePositive == PrintLine("print_tpr", TruePositiveLine, "print_tnr")
PrintTrueNegative == PrintLine("print_tnr", TrueNegativeLine, "done")

----------------------------------------------------------------------------
(* Inputs                                                                  *)

\* A session row of the file as read_csv types it; the columns not given
\* are those of one fixed session.
Row(productRelated, bounceRates, month, visitorType, weekend, revenue) ==
    << I(0), F(0, <<>>), I(0), F(0, <<>>), I(productRelated), F(64, <<>>),
       bounceRates, F(0, <<1>>), F(0, <<>>), F(0, <<>>), S(month),
       I(1), I(1), I(1), I(2), S(visitorType), B(weekend), B(revenue) >>

\* The rows run through the whole pipeline: two sessions that differ in
\* their numbers and their label, and one whose month is not in the mapping.
PipelineRows ==
    { Row(1, F(0, <<2>>), "Feb", "Returning_Visitor", FALSE, FALSE),
      Row(3, F(0, <<>>), "Nov", "New_Visitor", TRUE, TRUE),
      Row(2, F(0, <<2>>), "Jun", "Returning_Visitor", FALSE, FALSE) }

SeqsUpTo(T, n) == UNION {[1..k -> T] : k \in 0..n}

\* sys.argv of k elements: the script, then k - 1 arguments
Args(k) == [i \in 1..k |-> IF i = 1 THEN "shopping.py" ELSE "shopping.csv"]

NoSplit ==
    /\ train_idx = <<>> /\ test_idx = <<>>
    /\ X_train = <<>> /\ X_test = <<>> /\ y_train = <<>> /\ y_test = <<>>

NoResult ==
    /\ model = None /\ predictions = <<>>
    /\ sensitivity = None /\ specificity = None

NoOutput == stdout = <<>> /\ stderr = <<>> /\ status = None

Unset == evidence = <<>> /\ labels = <<>> /\ NoSplit /\ NoResult /\ NoOutput

Init ==
    /\ pc = "start"
    /\ argv \in {Args(k) : k \in 1..MaxArgc}
    /\ fileOk \in BOOLEAN
    /\ table \in SeqsUpTo(PipelineRows, MaxRows)
    /\ Unset

Next ==
    \/ CheckArgs
    \/ LoadData
    \/ Split
    \/ TrainModel
    \/ Predict
    \/ Evaluate
    \/ PrintCorrect
    \/ PrintIncorrect
    \/ PrintTruePositive
    \/ PrintTrueNegative

Spec == Init /\ [][Next]_vars

----------------------------------------------------------------------------
(* load_data on its own: every table of at most MaxLoadRows rows            *)

MonthNames ==
    << "Jan", "Feb", "Mar", "Apr", "May", "June",
       "Jul", "Aug", "Sep", "Oct", "Nov", "Dec" >>

VisitorTypes == {"Returning_Visitor", "New_Visitor", "Other"}

\* Floats of at most DOUBLE_PRECISION decimals, and of one more (none of
\* them half-way between two numbers of DOUBLE_PRECISION decimals: a binary
\* float is never exactly there).
FloatSamples ==
    { F(0, <<2>>),
      F(0, <<0, 0, 0, 0, 0, 0, 0, 0, 0, 1>>),
      F(0, <<0, 0, 0, 0, 0, 0, 0, 0, 0, 1, 4>>),
      F(0, <<1, 2, 3, 4, 5, 6, 7, 8, 9, 0, 6>>),
      F(0, <<0, 0, 0, 0, 0, 0, 0, 0, 0, 2, 7>>),
      F(1, <<9, 9, 9, 9, 9, 9, 9, 9, 9, 9, 6>>) }

\* Rows that vary one column of a session at a time; "Jun" and "Guest" are
\* values the mapping does not have.
LoadRows ==
    {Row(1, F(0, <<2>>), MonthNames[k], "Returning_Visitor", FALSE, FALSE) :
        k \in DOMAIN MonthNames}
    \cup {Row(1, F(0, <<2>>), "Jun", "Returning_Visitor", FALSE, FALSE)}
    \cup {Row(1, F(0, <<2>>), "Feb", v, TRUE, FALSE) :
             v \in VisitorTypes \cup {"Guest"}}
    \cup {Row(1, f, "Dec", "Other", w, TRUE) :
             f \in FloatSamples, w \in BOOLEAN}

InitLoad ==
    /\ pc = "load"
    /\ argv = Args(2)
    /\ fileOk \in BOOLEAN
    /\ table \in SeqsUpTo(LoadRows, MaxLoadRows)
    /\ Unset

NextLoad == LoadData

SpecLoad == InitLoad /\ [][NextLoad]_vars

----------------------------------------------------------------------------
(* evaluate on its own: every pair of equally long 0/1 sequences of at      *)
(* most MaxLen elements                                                     *)

Classes == {I(0), I(1)}

InitEvaluate ==
    /\ pc = "evaluate"
    /\ argv = Args(2)
    /\ fileOk = TRUE
    /\ table = <<>>
    /\ evidence = <<>> /\ labels = <<>>
    /\ train_idx = <<>> /\ test_idx = <<>>
    /\ X_train = <<>> /\ X_test = <<>> /\ y_train = <<>>
    /\ \E k \in 0..MaxLen :
          /\ y_test \in [1..k -> Classes]
          /\ predictions \in [1..k -> Classes]
    /\ model = None
    /\ sensitivity = None /\ specificity = None
    /\ NoOutput

NextEvaluate == Evaluate

SpecEvaluate == InitEvaluate /\ [][NextEvaluate]_vars

----------------------------------------------------------------------------
(* The classifier on its own: every training set of 1..MaxTrain samples     *)
(* and every list of 1..MaxQueries queries                                  *)

MaxTrain == 3
MaxQueries == 1

\* Sessions with three different feature vectors.
QueryRows ==
    { Row(1, F(0, <<2>>), "Feb", "Returning_Visitor", FALSE, FALSE),
      Row(3, F(0, <<>>), "Feb", "Returning_Visitor", FALSE, TRUE),
      Row(2, F(0, <<1>>), "Feb", "Returning_Visitor", FALSE, FALSE) }

\* The same, and a session with the features of the first and the other
\* label.
KnnRows ==
    QueryRows
    \cup {Row(1, F(0, <<2>>), "Feb", "Returning_Visitor", FALSE, TRUE)}

InitKnn ==
    /\ pc = "train"
    /\ argv = Args(2)
    /\ fileOk = TRUE
    /\ table = <<>>
    /\ evidence = <<>> /\ labels = <<>>
    /\ train_idx = <<>> /\ test_idx = <<>>
    /\ \E k \in 1..MaxTrain : \E t \in [1..k -> KnnRows] :
          /\ X_train = load_data(t)[1]
          /\ y_train = load_data(t)[2]
    /\ \E k \in 1..MaxQueries : \E t \in [1..k -> QueryRows] :
          /\ X_test = load_data(t)[1]
          /\ y_test = load_data(t)[2]
    /\ NoResult
    /\ NoOutput

NextKnn == TrainModel \/ Predict

SpecKnn == InitKnn /\ [][NextKnn]_vars

----------------------------------------------------------------------------
(* Properties                                                              *)

Range(f) == {f[i] : i \in DOMAIN f}

\* the rows of the test set with true class t and predicted class p
Count(t, p) ==
    Cardinality({i \in DOMAIN y_test : y_test[i] = I(t) /\ predictions[i] = I(p)})

HasPositive == \E i \in DOMAIN y_test : y_test[i] = I(1)
HasNegative == \E i \in DOMAIN y_test : y_test[i] = I(0)

\* x is the number n / d, and lies in [0, 1]
IsRate(x, n, d) ==
    /\ IsNumber(x)
    /\ x.den > 0 /\ 0 <= x.num /\ x.num <= x.den
    /\ x.num * d = n * x.den

\* C1: when the test labels hold a positive and a negative, evaluate returns
\* sensitivity = TP / (TP + FN) and specificity = TN / (TN + FP), counted
\* with rows = true label and columns = predicted label, both in [0, 1].
C1_EvaluateRates ==
    (pc # "evaluate" /\ HasPositive /\ HasNegative) =>
        /\ pc = "print_correct"
        /\ IsRate(sensitivity, Count(1, 1), Count(1, 1) + Count(1, 0))
        /\ IsRate(specificity, Count(0, 0), Count(0, 0) + Count(0, 1))

\* labels = [1,1,0,0], predictions = [1,0,0,1] gave (0.5, 0.5)
C1_Witness ==
    /\ pc = "print_correct"
    /\ y_test = <<I(1), I(1), I(0), I(0)>>
    /\ predictions = <<I(1), I(0), I(0), I(1)>>
    /\ sensitivity = [num |-> 1, den |-> 2]
    /\ specificity = [num |-> 1, den |-> 2]

\* C2: when the test labels hold no positive (no negative), evaluate raises
\* or returns NaN for the sensitivity (specificity), never a number.
C2_DegenerateRates ==
    pc # "evaluate" =>
        /\ ~HasPositive =>
              \/ pc = "exit" /\ status = Exit(1) /\ sensitivity = None
              \/ pc = "print_correct" /\ sensitivity = NaN
        /\ ~HasNegative =>
              \/ pc = "exit" /\ status = Exit(1) /\ specificity = None
              \/ pc = "print_correct" /\ specificity = NaN

\* labels = predictions = [1,1,1,1]: the matrix is 1x1 and evaluate raises
C2_Witness ==
    /\ y_test = <<I(1), I(1), I(1), I(1)>>
    /\ predictions = <<I(1), I(1), I(1), I(1)>>
    /\ pc = "exit"
    /\ stderr = <<"IndexError">>
    /\ specificity = None

AfterSplit ==
    {"train", "predict", "evaluate", "print_correct", "print_incorrect",
     "print_tpr", "print_tnr", "done"}

\* C3: after the split the train and test index sets are disjoint, together
\* they are all the input rows, and the i-th train (test) label and feature
\* vector are those of the same input row.
C3_SplitPartition ==
    pc \in AfterSplit =>
        /\ Range(train_idx) \cap Range(test_idx) = {}
        /\ Range(train_idx) \cup Range(test_idx) = 1..Len(evidence)
        /\ Len(train_idx) + Len(test_idx) = Len(evidence)
        /\ Len(X_train) = Len(train_idx) /\ Len(y_train) = Len(train_idx)
        /\ Len(X_test) = Len(test_idx) /\ Len(y_test) = Len(test_idx)
        /\ \A i \in DOMAIN train_idx :
              /\ X_train[i] = evidence[train_idx[i]]
              /\ y_train[i] = labels[train_idx[i]]
        /\ \A i \in DOMAIN test_idx :
              /\ X_test[i] = evidence[test_idx[i]]
              /\ y_test[i] = labels[test_idx[i]]

\* four rows split by a shuffle that is not the identity
C3_Witness ==
    /\ pc = "train"
    /\ Len(evidence) = 4
    /\ test_idx = <<3, 1>>
    /\ train_idx = <<4, 2>>
    /\ y_train # y_test

MonthIndex(name) == (CHOOSE k \in DOMAIN MonthNames : MonthNames[k] = name) - 1

ValidRow(r) ==
    /\ Len(r) = 18
    /\ r[11] \in {S(MonthNames[k]) : k \in DOMAIN MonthNames}
    /\ r[16] \in {S(v) : v \in VisitorTypes}
    /\ IsBool(r[17])
    /\ IsBool(r[18])

\* the feature the claim states for the value v read in column c
ExpectedFeature(c, v) ==
    IF c = 11 THEN I(MonthIndex(v.str))
    ELSE IF c = 16 THEN I(IF v = S("Returning_Visitor") THEN 1 ELSE 0)
    ELSE IF c = 17 THEN I(IF v = B(TRUE) THEN 1 ELSE 0)
    ELSE v

\* C4: for a valid table load_data returns one feature row per data row, in
\* file order, of 17 elements: Month as its index 0-11, VisitorType as 1 for
\* Returning_Visitor and 0 otherwise, Weekend as 1/0, and the other 14
\* fields as they were read.
C4_FeaturesAsRead ==
    (pc = "split" /\ \A i \in DOMAIN table : ValidRow(table[i])) =>
        /\ Len(evidence) = Len(table)
        /\ \A i \in DOMAIN table :
              /\ Len(evidence[i]) = 17
              /\ \A c \in 1..17 : evidence[i][c] = ExpectedFeature(c, table[i][c])

\* C5: the label vector is as long as the feature matrix, in the same row
\* order, and its i-th element is 1 if Revenue of row i is true, else 0.
C5_Labels ==
    pc = "split" =>
        /\ Len(labels) = Len(evidence)
        /\ Len(labels) = Len(table)
        /\ \A i \in DOMAIN table :
              labels[i] = IF table[i][18] = B(TRUE) THEN I(1) ELSE I(0)

\* two rows with different Revenue and Weekend, loaded in order
C5_Witness ==
    /\ pc = "split"
    /\ Len(table) = 2
    /\ table[1][18] = B(TRUE) /\ table[1][17] = B(FALSE)
    /\ table[2][18] = B(FALSE) /\ table[2][17] = B(TRUE)
    /\ labels = <<I(1), I(0)>>

\* C6: started with another number of arguments than one, the program
\* writes the usage message to standard error and exits with a non-zero
\* status; no stage runs and nothing is printed.
C6_UsageError ==
    Len(argv) # 2 =>
        /\ pc \in {"start", "exit"}
        /\ stdout = <<>>
        /\ evidence = <<>> /\ labels = <<>> /\ NoSplit /\ NoResult
        /\ pc = "start" => (stderr = <<>> /\ status = None)
        /\ pc = "exit" => (stderr = <<Usage>> /\ status = Exit(1))

\* two arguments given: the usage error, and nothing else
C6_Witness ==
    /\ Len(argv) = 3
    /\ pc = "exit"
    /\ stderr = <<Usage>>
    /\ status = Exit(1)

\* whether a is at most as far from q as b is, on the scale of the three
Nearer(a, b, q) ==
    LET E == MaxDigits(<<a, b, q>>)
    IN  Distance2(a, q, E) <= Distance2(b, q, E)

Stages ==
    << "start", "load", "split", "train", "predict", "evaluate",
       "print_correct", "print_incorrect", "print_tpr", "print_tnr", "done" >>

Rank(p) == CHOOSE k \in DOMAIN Stages : Stages[k] = p

Headers ==
    << "Correct: ", "Incorrect: ", "True Positive Rate: ", "True Negative Rate: " >>

\* the lines printed when the process is at p
Printed(p) ==
    IF p = "exit" \/ Rank(p) <= Rank("print_correct") THEN 0
    ELSE Rank(p) - Rank("print_correct")

\* C8: the stages run at most once and in order, a failed stage ends the
\* process and no later stage runs, and the four report lines are printed
\* in order only after evaluate returned.
C8_LinearPipeline ==
    /\ [][/\ pc \notin {"exit", "done"}
          /\ pc' = "exit" \/ Rank(pc') = Rank(pc) + 1
          /\ pc' = "exit" => (status' = Exit(1) /\ stdout' = stdout)]_vars
    /\ [](/\ Len(stdout) = Printed(pc)
          /\ \A i \in DOMAIN stdout : stdout[i][1] = Headers[i]
          /\ stdout # <<>> => (sensitivity # None /\ specificity # None))

\* a complete run: four lines printed, exit status 0
C8_Witness ==
    /\ pc = "done"
    /\ Len(stdout) = 4
    /\ status = Exit(0)
    /\ stderr = <<>>

\* C9: after a split of n rows the test set has 0.4 n rows within rounding
\* (less than 1 away), the training set the other n - that many, and
\* neither is empty.
C9_SplitSizes ==
    pc \in AfterSplit =>
        LET n == Len(evidence)
            d == 10 * Len(X_test) - 4 * n
        IN  /\ -10 < d /\ d < 10
            /\ Len(X_train) = n - Len(X_test)
            /\ Len(X_train) >= 1
            /\ Len(X_test) >= 1

\* three rows: two for testing, one for training
C9_Witness ==
    /\ pc = "train"
    /\ Len(evidence) = 3
    /\ Len(X_test) = 2
    /\ Len(X_train) = 1

====
